---------------------------- MODULE Spec2Model ----------------------------
(***************************************************************************)
(* A model of src/esp.py: the bit-banged ISP programmer for the ATtiny13.  *)
(*                                                                         *)
(* The program is single threaded.  program_flash is modelled as a         *)
(* sequence of steps, one per stage of the function (decode, enter         *)
(* programming mode, read signature, fuse guard, erase, one step per page  *)
(* of the page loop, one step per address of the verification loop).       *)
(* Every 4-byte command handed to send_cmd is appended to log; the bytes   *)
(* the target answers with are chosen by the environment.  A step that     *)
(* sends commands leaves the lines, and the locals of transfer_byte, as    *)
(* the last call of transfer_byte left them; the steps of one call are the *)
(* actions TB_*.                                                           *)
(***************************************************************************)
EXTENDS Integers, Sequences, FiniteSets, TLC

(***************************************************************************)
(* Program constants (src/esp.py:14-38).                                   *)
(***************************************************************************)
FLASH_SIZE == 1024
ATTINY13_PAGE_SIZE == 32
ATTINY13_WORDS_PER_PAGE == 16
SHIPPED_LOW_FUSE_9_6MHZ == 122
SHIPPED_HIGH_FUSE == 255
MAX_REPORTED_ERRORS == 20

\* range(8) of transfer_byte: the bits of a byte on the link.
BITS_PER_BYTE == 8

(***************************************************************************)
(* Bounds of the model.                                                    *)
(***************************************************************************)
MaxLines == 2
MaxGuardCalls == 2

\* Images of at most this many bytes meet every flash content.
MaxExhaustive == 4

\* Direct calls of the fuse functions in one session.
MaxApiCalls == 3

(***************************************************************************)
(* Integer helpers: Python's >>, & on non-negative integers.               *)
(***************************************************************************)
RECURSIVE Pow2(_)
Pow2(n) == IF n = 0 THEN 1 ELSE 2 * Pow2(n - 1)

Shr(x, n) == x \div Pow2(n)

Bit(x, n) == Shr(x, n) % 2

Min(a, b) == IF a < b THEN a ELSE b

(***************************************************************************)
(* Text.  A Python str is the sequence of its code points (integers); a    *)
(* line is one too, and the lines of a text are a sequence of lines.  The  *)
(* tables of code points below are those of CPython 3.11 (Unicode 14).     *)
(***************************************************************************)
\* The printable ASCII characters from code point 32 to 95, and from 97 on.
AsciiTo95 == " !\"#$%&'()*+,-./0123456789:;<=>?@ABCDEFGHIJKLMNOPQRSTUVWXYZ[\\]^_"

AsciiFrom97 == "abcdefghijklmnopqrstuvwxyz{|}~"

\* Python's ord() of a one-character string of ASCII.
Ord(c) ==
    IF c = "\n" THEN 10
    ELSE IF c = "\t" THEN 9
    ELSE IF \E i \in 1..Len(AsciiTo95) : SubSeq(AsciiTo95, i, i) = c
    THEN 31 + (CHOOSE i \in 1..Len(AsciiTo95) : SubSeq(AsciiTo95, i, i) = c)
    ELSE 96 + (CHOOSE i \in 1..Len(AsciiFrom97) : SubSeq(AsciiFrom97, i, i) = c)

\* The code points of a string literal.
RECURSIVE Codes(_)
Codes(str) == IF Len(str) = 0 THEN <<>> ELSE <<Ord(Head(str))>> \o Codes(Tail(str))

HexChars == Codes("0123456789ABCDEF")

\* The characters the code and int() look for.
Colon == Ord(":")

Underscore == Ord("_")

PlusSign == Ord("+")

MinusSign == Ord("-")

PrefixLetters == {Ord("x"), Ord("X")}

\* The code points of the digit zero of every script: each is followed by
\* its digits one to nine (the characters int() takes as decimal digits).
DecimalZeros ==
    {48, 1632, 1776, 1984, 2406, 2534, 2662, 2790, 2918, 3046, 3174, 3302,
     3430, 3558, 3664, 3792, 3872, 4160, 4240, 6112, 6160, 6470, 6608, 6784,
     6800, 6992, 7088, 7232, 7248, 42528, 43216, 43264, 43472, 43504, 43600,
     44016, 65296, 66720, 68912, 69734, 69872, 69942, 70096, 70384, 70736,
     70864, 71248, 71360, 71472, 71904, 72016, 72784, 73040, 73120, 92768,
     92864, 93008, 120782, 120792, 120802, 120812, 120822, 123200, 123632,
     125264, 130032}

\* The value of one character as a base-16 digit of int(), -1 when it is
\* none: a decimal digit of any script, or a letter a-f, A-F.
HexDigitValue(c) ==
    IF 48 <= c /\ c <= 57 THEN c - 48
    ELSE IF 65 <= c /\ c <= 70 THEN c - 55
    ELSE IF 97 <= c /\ c <= 102 THEN c - 87
    ELSE IF c < 128 THEN -1
    ELSE LET zeros == {z \in DecimalZeros : z <= c /\ c <= z + 9}
         IN  IF zeros # {} THEN c - (CHOOSE z \in zeros : TRUE) ELSE -1

\* Python's s[a:b] for 0 <= a <= b (0-based, end exclusive, clipped to the string).
Slice(s, a, b) == SubSeq(s, a + 1, Min(b, Len(s)))

\* The whitespace beyond ASCII.
UnicodeSpaces == {133, 160, 5760} \cup (8192..8202) \cup {8232, 8233, 8239, 8287, 12288}

\* The characters str.strip() removes.
StripSpaces == (9..13) \cup (28..32) \cup UnicodeSpaces

IsSpace(c) == c \in StripSpaces

\* The characters int() takes as blanks around the number.
IntSpaces == (9..13) \cup {32} \cup UnicodeSpaces

\* The characters str.splitlines() ends a line at (\r\n counts once).
IsLineBreak(c) == c \in {10, 11, 12, 13, 28, 29, 30, 133, 8232, 8233}

\* s without the characters of `blanks` at its start, at its end.
RECURSIVE LStripChars(_, _)
LStripChars(s, blanks) ==
    IF Len(s) > 0 /\ Head(s) \in blanks THEN LStripChars(Tail(s), blanks) ELSE s

RECURSIVE RStripChars(_, _)
RStripChars(s, blanks) ==
    IF Len(s) > 0 /\ s[Len(s)] \in blanks
    THEN RStripChars(SubSeq(s, 1, Len(s) - 1), blanks) ELSE s

\* What int() gives: a value, or ValueError raised.
IntError == [raised |-> TRUE, value |-> 0]

IntOk(n) == [raised |-> FALSE, value |-> n]

\* The digits of int(s, 16) from s[k] on, where a digit is due: hex digits,
\* with single underscores allowed between two digits.  No digit, or any
\* other character, raises ValueError.
RECURSIVE IntHexAcc(_, _, _)
IntHexAcc(s, k, acc) ==
    IF k > Len(s) THEN IntError
    ELSE IF HexDigitValue(s[k]) < 0 THEN IntError
    ELSE LET v == acc * 16 + HexDigitValue(s[k])
         IN  IF k = Len(s) THEN IntOk(v)
             ELSE IF s[k + 1] = Underscore THEN IntHexAcc(s, k + 2, v)
             ELSE IntHexAcc(s, k + 1, v)

\* int(s, 16) as CPython does it: blanks at both ends are dropped, then come
\* an optional sign, an optional prefix 0x or 0X (its zero a zero of any
\* script; one underscore may follow the prefix), and the digits.
IntHex(s) ==
    LET t == RStripChars(LStripChars(s, IntSpaces), IntSpaces)
        signed == Len(t) > 0 /\ t[1] \in {PlusSign, MinusSign}
        sign == IF signed /\ t[1] = MinusSign THEN -1 ELSE 1
        body == IF signed THEN Tail(t) ELSE t
        prefixed == /\ Len(body) >= 2
                    /\ body[1] \in DecimalZeros
                    /\ body[2] \in PrefixLetters
        rest == IF prefixed THEN SubSeq(body, 3, Len(body)) ELSE body
        digits == IF prefixed /\ Len(rest) > 0 /\ rest[1] = Underscore THEN Tail(rest) ELSE rest
        parsed == IntHexAcc(digits, 1, 0)
    IN  IF parsed.raised THEN IntError ELSE IntOk(sign * parsed.value)

(***************************************************************************)
(* A Python dict, kept as the sequence of its <<key, value>> items in      *)
(* insertion order (the order dict.items() iterates in).                   *)
(***************************************************************************)
DictKeys(d) == {d[i][1] : i \in 1..Len(d)}

DictHas(d, k) == \E i \in 1..Len(d) : d[i][1] = k

DictGet(d, k) == d[CHOOSE i \in 1..Len(d) : d[i][1] = k][2]

\* Mutant: a key that is already there keeps its value.
DictSet_KeepFirst(d, k, v) ==
    IF DictHas(d, k) THEN d ELSE Append(d, <<k, v>>)

\* d[k] = v: an existing key keeps its place, a new key is appended.
DictSet(d, k, v) ==
    IF DictHas(d, k)
    THEN [i \in 1..Len(d) |-> IF d[i][1] = k THEN <<k, v>> ELSE d[i]]
    ELSE Append(d, <<k, v>>)

(***************************************************************************)
(* parse_hex_file (src/esp.py:302-315).  The result is a record: raised    *)
(* tells whether an int() call raised ValueError, data is the dict.        *)
(***************************************************************************)
\* str.strip(): the whitespace at both ends of the text is dropped.
Strip(s) == RStripChars(LStripChars(s, StripSpaces), StripSpaces)

\* Where the line breaks of s begin: at each line-break character, except
\* a newline that follows a carriage return (the two are one break).
BreakStarts(s) ==
    {k \in 1..Len(s) : IsLineBreak(s[k]) /\ ~(s[k] = 10 /\ k > 1 /\ s[k - 1] = 13)}

\* Where the line break that begins at s[k] ends.
BreakEnd(s, k) == IF s[k] = 13 /\ k < Len(s) /\ s[k + 1] = 10 THEN k + 1 ELSE k

\* str.splitlines(): every line break ends a line (an empty one too); the
\* text after the last break is a line unless it is empty.
SplitLines(s) ==
    LET starts == BreakStarts(s)
        n == Cardinality(starts)
        nth(j) == CHOOSE k \in starts : Cardinality({x \in starts : x < k}) = j - 1
        from(j) == IF j = 1 THEN 1 ELSE BreakEnd(s, nth(j - 1)) + 1
        rest == SubSeq(s, from(n + 1), Len(s))
    IN  [j \in 1..n |-> SubSeq(s, from(j), nth(j) - 1)]
            \o (IF Len(rest) > 0 THEN <<rest>> ELSE <<>>)

\* hex_content.strip().splitlines() (line 304).
StripSplitLines(content) == SplitLines(Strip(content))

StartsWithColon(line) == Len(line) > 0 /\ line[1] = Colon

\* The loop of lines 311-312: data[addr + i] = int(line[9+2i : 11+2i], 16).
RECURSIVE ParseDataBytes(_, _, _, _, _)
ParseDataBytes(line, byte_count, addr, i, acc) ==
    IF acc.raised \/ i >= byte_count THEN acc
    ELSE LET v == IntHex(Slice(line, 9 + i * 2, 11 + i * 2))
         IN  IF v.raised
             THEN [raised |-> TRUE, data |-> acc.data]
             ELSE ParseDataBytes(line, byte_count, addr, i + 1,
                      [raised |-> FALSE, data |-> DictSet(acc.data, addr + i, v.value)])

\* The loop of lines 304-314 from line k on.
RECURSIVE ParseLines(_, _, _)
ParseLines(lines, k, acc) ==
    IF acc.raised \/ k > Len(lines) THEN acc
    ELSE LET line == lines[k]
             byte_count == IntHex(Slice(line, 1, 3))
             addr == IntHex(Slice(line, 3, 7))
             record_type == IntHex(Slice(line, 7, 9))
         IN  IF ~StartsWithColon(line) THEN ParseLines(lines, k + 1, acc)
             ELSE IF byte_count.raised \/ addr.raised \/ record_type.raised
                  THEN [raised |-> TRUE, data |-> acc.data]
             ELSE IF record_type.value = 0
                  THEN ParseLines(lines, k + 1,
                           ParseDataBytes(line, byte_count.value, addr.value, 0, acc))
             ELSE IF record_type.value = 1 THEN acc
             ELSE ParseLines(lines, k + 1, acc)

parse_hex_file(content) ==
    ParseLines(StripSplitLines(content), 1, [raised |-> FALSE, data |-> <<>>])

(***************************************************************************)
(* Hex texts the model runs program_flash on.  RecordLine writes one       *)
(* Intel-HEX record as text, the way the tool chain that produced          *)
(* hex_file_content (src/esp.py:405-411) does.                             *)
(***************************************************************************)
Hex2(b) == <<HexChars[((b \div 16) % 16) + 1], HexChars[(b % 16) + 1]>>

RECURSIVE HexBytes(_)
HexBytes(bytes) ==
    IF Len(bytes) = 0 THEN <<>> ELSE Hex2(Head(bytes)) \o HexBytes(Tail(bytes))

RECURSIVE SumSeq(_)
SumSeq(bytes) == IF Len(bytes) = 0 THEN 0 ELSE Head(bytes) + SumSeq(Tail(bytes))

RecordLine(byte_count, addr, record_type, payload) ==
    LET fields == <<byte_count, addr \div 256, addr % 256, record_type>> \o payload
    IN  <<Colon>> \o HexBytes(fields) \o Hex2((256 - (SumSeq(fields) % 256)) % 256)

EofLine == RecordLine(0, 0, 1, <<>>)

\* The text made of the lines, a newline between two of them.
RECURSIVE JoinLines(_)
JoinLines(lines) ==
    IF Len(lines) = 0 THEN <<>>
    ELSE IF Len(lines) = 1 THEN lines[1]
    ELSE lines[1] \o <<10>> \o JoinLines(Tail(lines))

\* The lines the generated texts are made of.
SampleLines ==
    { EofLine,
      RecordLine(2, 0, 0, <<9, 192>>),          \* two bytes at 0x0000
      RecordLine(1, 1, 0, <<171>>),             \* overrides address 0x0001
      RecordLine(2, 31, 0, <<18, 255>>),        \* spans pages 0 and 1
      RecordLine(2, 1023, 0, <<52, 86>>),       \* last flash byte and 0x0400
      RecordLine(2, 0, 2, <<16, 0>>),           \* extended segment address
      Codes("#A"),                              \* not a record
      Codes(":02") }                            \* a record cut short

RECURSIVE TextsOfLen(_)
TextsOfLen(n) ==
    IF n = 0 THEN {<<>>}
    ELSE {Append(t, l) : t \in TextsOfLen(n - 1), l \in SampleLines}

GeneratedTexts == {JoinLines(t) : t \in UNION {TextsOfLen(n) : n \in 0..MaxLines}}

\* hex_file_content of the script (src/esp.py:405-411); it ends in a newline.
hex_file_content ==
    JoinLines(
    << RecordLine(16, 0, 0, <<9, 192, 14, 192, 13, 192, 12, 192,
                              11, 192, 11, 192, 9, 192, 8, 192>>),
       RecordLine(16, 16, 0, <<7, 192, 6, 192, 17, 36, 31, 190,
                               207, 233, 205, 191, 8, 208, 18, 192>>),
       RecordLine(16, 32, 0, <<239, 207, 69, 155, 2, 192, 196, 154,
                               24, 149, 196, 152, 253, 207, 188, 154>>),
       RecordLine(16, 48, 0, <<184, 152, 187, 152, 136, 224, 136, 185,
                               128, 228, 131, 185, 131, 224, 135, 185>>),
       RecordLine(8, 64, 0, <<120, 148, 255, 207, 248, 148, 255, 207>>),
       EofLine >>) \o <<10>>

\* Further texts: a record at the top of the 16-bit address range, an empty
\* data record, a lower-case record, and a blank line before and after a
\* record.
SpecialTexts ==
    { hex_file_content,
      JoinLines(<<RecordLine(2, 65535, 0, <<1, 2>>), EofLine>>),
      JoinLines(<<RecordLine(0, 64, 0, <<>>), EofLine>>),
      JoinLines(<<Codes(":0100000a00fef7"), EofLine>>),
      JoinLines(<<<<>>, RecordLine(1, 992, 0, <<0>>), <<>>>>) }

\* Texts with fields that are no plain hex digits but that int(s, 16)
\* takes: a sign, a blank, the prefix 0x, an underscore.  The last one ends
\* in blanks that strip() removes.
LenientTexts ==
    { Codes(":01000000-1\n:00000001FF"),    \* a byte written with a sign: value -1
      Codes(":01000000+1\n:00000001FF"),    \* a byte written with a plus sign
      Codes(":01000000 1\n:00000001FF"),    \* a byte written with a blank
      Codes(":+1000000AB\n:00000001FF"),    \* a signed byte count
      Codes(":-1000000AB\n:00000001FF"),    \* a negative byte count: range() is empty
      Codes(":010x1F00AB\n:00000001FF"),    \* an address with the prefix 0x
      Codes(":011_0F00AB\n:00000001FF"),    \* an address with an underscore
      Codes(":010000+1AB\n:00000001FF"),    \* record type +1: taken as end of file
      Codes(":01-00100AB\n:00000001FF"),    \* a negative address
      Codes(":010000001  ") }

\* Texts with characters beyond the printable ASCII ones: blanks and digits
\* of other scripts, which strip() and int() take, and the line breaks of
\* splitlines() other than the newline.
\*   0x1F, 0xA0, 0x3000  blanks of strip(); the last two of int() as well
\*   0x0663, 0xFF10      ARABIC-INDIC DIGIT THREE, FULLWIDTH DIGIT ZERO
\*   0x0B, 0x0D, 0x1C    line breaks
UnicodeTexts ==
    { <<31>> \o Codes(":0100000007"),
      <<160>> \o Codes(":0100000007FE"),
      Codes(" :0100000007FE"),
      Codes(":01000000") \o <<160>> \o Codes("1\n:00000001FF"),
      Codes(":02000000") \o <<160>> \o Codes("1") \o <<160>> \o Codes("2"),
      Codes(":01000000") \o <<1635, 1635>> \o Codes("\n:00000001FF"),
      Codes(":01") \o <<65296>> \o Codes("0000000AB"),
      Codes(":01") \o <<65296>> \o Codes("x1F00AB"),
      Codes(":01000000 1") \o <<31>>,
      <<12288>> \o Codes("\n:00000001FF"),
      Codes("#") \o <<11>> \o Codes(":0100000055AA"),
      Codes(":0100000001FE") \o <<13>> \o Codes(":0100010002FC") \o <<13, 10>> \o Codes(":00000001FF"),
      Codes(":01000000") \o <<28>> \o Codes("1"),
      Codes(":01000000") \o <<31>> \o Codes("1") }

HexInputs == GeneratedTexts \cup SpecialTexts \cup LenientTexts \cup UnicodeTexts

(***************************************************************************)
(* The bytes the environment (the target on the serial link) may answer    *)
(* with.  A read of the target returns the fourth response byte.           *)
(***************************************************************************)
EchoVals == {83, 0, 255}

SigVals == {30, 144, 7, 8}

LowFuseVals == {122, 106, 255}

HighFuseSamples == {255, 254, 253, 127, 221}

AllBytes == 0..255

\* What a flash read may return where `expected` was programmed.
FlashVals(expected) == {expected % 256, 255, 0}

\* Target fuse configurations a build of the script may carry (lines 27, 38).
ConfigLowVals == {122, 106, 98, 123}

ConfigHighVals == {255, 254, 253, 127}

(***************************************************************************)
(* State.                                                                  *)
(***************************************************************************)
VARIABLES
    hex_content,        \* the argument of program_flash
    ATTINY13_LOW_FUSE_9_6MHZ,   \* configured target low fuse (line 27)
    ATTINY13_HIGH_FUSE, \* configured target high fuse (line 38)
    pc,                 \* position in program_flash / program_fuses_for_9_6mhz
    parsed_data,        \* program_flash's parsed_data (a dict)
    reset,              \* level of the reset line: 1 released, 0 asserted
    log,                \* every command sent so far, <<a, b, c, d>> each
    echo,               \* r3 of the programming-enable command, -1 before it
    sig,                \* the signature read, <<>> before it
    low_fuse,           \* locals of program_fuses_for_9_6mhz, -1 when unbound
    high_fuse,
    new_low_fuse,
    guard_ret,          \* what program_fuses_for_9_6mhz returned: "none", "True", "False"
    guard_msg,          \* the verdict the guard printed last, "none" before any
    guard_calls,        \* calls of program_fuses_for_9_6mhz so far
    guard_log_start,    \* Len(log) when the current call of the guard began
    prev_guard_ret,     \* what the call of the guard before this one returned
    page_start,         \* loop variable of the page loop
    verify_index,       \* position of verify_flash in parsed_data.items()
    errors,             \* verify_flash's errors
    result,             \* what program_flash returned: "none", "True", "False", "ValueError"
    retains,            \* whether the target answers fuse reads from its fuse memory
    fuse_mem,           \* the target's fuse memory, [low, high]
    ideal,              \* whether the target is a faultless ATtiny13
    flash_mem,          \* the target's flash: byte address -> byte, 0xFF where absent
    tb_pc,              \* position of transfer_byte: "idle" before its first call, "set_mosi", "raise", "sample", "lower", "returned"
    tb_byte,            \* the argument of the present call of transfer_byte (of the last one, once it has returned)
    tb_i,               \* the loop variable i of that call
    read_val,           \* the read_val of that call
    tb_ret,             \* what that call returned, -1 before it returns
    sck,                \* level of the clock line
    mosi,               \* level of the data-out line
    miso_reads,         \* the levels miso.value() returned in that call, in order
    sck_rises           \* rising edges of the clock in that call

vars == <<hex_content, ATTINY13_LOW_FUSE_9_6MHZ, ATTINY13_HIGH_FUSE, pc, parsed_data,
          reset, log, echo, sig, low_fuse, high_fuse, new_low_fuse, guard_ret,
          guard_msg, guard_calls, guard_log_start, prev_guard_ret, page_start, verify_index, errors, result, retains, fuse_mem,
          ideal, flash_mem, tb_pc, tb_byte, tb_i, read_val, tb_ret, sck, mosi,
          miso_reads, sck_rises>>

config_vars == <<hex_content, ATTINY13_LOW_FUSE_9_6MHZ, ATTINY13_HIGH_FUSE, retains, ideal>>

\* The state of program_flash and of the target.
program_vars == <<hex_content, ATTINY13_LOW_FUSE_9_6MHZ, ATTINY13_HIGH_FUSE, pc, parsed_data,
                  reset, log, echo, sig, low_fuse, high_fuse, new_low_fuse, guard_ret,
                  guard_msg, guard_calls, guard_log_start, prev_guard_ret, page_start,
                  verify_index, errors, result, retains, fuse_mem, ideal, flash_mem>>

\* The state of transfer_byte and of the lines it drives.
xfer_vars == <<tb_pc, tb_byte, tb_i, read_val, tb_ret, sck, mosi, miso_reads, sck_rises>>

guard_locals == <<low_fuse, high_fuse, new_low_fuse>>

flash_vars == <<page_start, verify_index, errors>>

(***************************************************************************)
(* Commands (the four bytes handed to send_cmd).                           *)
(***************************************************************************)
CmdProgrammingEnable == <<172, 83, 0, 0>>

CmdReadSignature(addr) == <<48, 0, addr, 0>>

CmdReadLowFuse == <<80, 0, 0, 0>>

CmdReadHighFuse == <<88, 8, 0, 0>>

CmdReadLockBits == <<88, 0, 0, 0>>

\* Mutant: the low-fuse write goes out with the opcode of the high fuse.
CmdWriteLowFuse_HighOpcode(fuse_value) == <<172, 168, 0, fuse_value>>

CmdWriteLowFuse(fuse_value) == <<172, 160, 0, fuse_value>>

CmdWriteHighFuse(fuse_value) == <<172, 168, 0, fuse_value>>

CmdChipErase == <<172, 128, 0, 0>>

CmdLoadLow(word_index, low_byte) == <<64, 0, word_index, low_byte>>

CmdLoadHigh(word_index, high_byte) == <<72, 0, word_index, high_byte>>

CmdWritePage(page_address) ==
    LET page_word_addr == page_address \div 2
    IN  <<76, Shr(page_word_addr, 8) % 256, page_word_addr % 256, 0>>

\* read_flash_byte's command (lines 317-321).
CmdReadFlash(addr) ==
    LET word_addr == Shr(addr, 1)
        high_low == addr % 2
    IN  <<IF high_low # 0 THEN 40 ELSE 32, Shr(word_addr, 8) % 256, word_addr % 256, 0>>

\* display_fuse_settings sends three reads; what it reads is only printed.
DisplayCmds == <<CmdReadLowFuse, CmdReadHighFuse, CmdReadLockBits>>

\* Mutant: the high byte of each word is loaded before its low byte.
ProgramPageCmds_HighFirst(page_address, data_bytes) ==
    LET load(k) ==
            LET word_index == (k - 1) \div 2
                byte_index == word_index * 2
                low_byte == IF byte_index < Len(data_bytes)
                            THEN data_bytes[byte_index + 1] ELSE 255
                high_byte == IF byte_index + 1 < Len(data_bytes)
                             THEN data_bytes[byte_index + 2] ELSE 255
            IN  IF k % 2 = 1 THEN CmdLoadHigh(word_index, high_byte)
                ELSE CmdLoadLow(word_index, low_byte)
    IN  [k \in 1..(2 * ATTINY13_WORDS_PER_PAGE) |-> load(k)]
        \o <<CmdWritePage(page_address)>>

\* program_flash_page (lines 269-300): the commands it sends, in order.
ProgramPageCmds(page_address, data_bytes) ==
    LET load(k) ==
            LET word_index == (k - 1) \div 2
                byte_index == word_index * 2
                low_byte == IF byte_index < Len(data_bytes)
                            THEN data_bytes[byte_index + 1] ELSE 255
                high_byte == IF byte_index + 1 < Len(data_bytes)
                             THEN data_bytes[byte_index + 2] ELSE 255
            IN  IF k % 2 = 1 THEN CmdLoadLow(word_index, low_byte)
                ELSE CmdLoadHigh(word_index, high_byte)
    IN  [k \in 1..(2 * ATTINY13_WORDS_PER_PAGE) |-> load(k)]
        \o <<CmdWritePage(page_address)>>

\* Mutant: addresses the image does not hold are filled with 0x00.
PageData_ZeroFill(data, start) ==
    [i \in 1..ATTINY13_PAGE_SIZE |->
        IF DictHas(data, start + i - 1) THEN DictGet(data, start + i - 1) ELSE 0]

\* Lines 380-389: the page's bytes, 0xFF where the image has none.
PageData(data, start) ==
    [i \in 1..ATTINY13_PAGE_SIZE |->
        IF DictHas(data, start + i - 1) THEN DictGet(data, start + i - 1) ELSE 255]

\* Mutant: every page is programmed.
PageHasData_Always(data, start) == TRUE

PageHasData(data, start) ==
    \E i \in 0..(ATTINY13_PAGE_SIZE - 1) : DictHas(data, start + i)

\* The expected signature of line 357.
ExpectedSignature == <<30, 144, 7>>

(***************************************************************************)
(* The target, as the commands of the code address it.                     *)
(***************************************************************************)
\* A flash whose every cell is erased (absent cells read 0xFF).
ErasedFlash == [a \in {} |-> 255]

\* The byte the flash holds at byte address a.
FlashByte(mem, a) == IF a \in DOMAIN mem THEN mem[a] ELSE 255

\* The cell a flash read (lines 317-321) selects: the word address of bytes
\* 2 and 3, the high byte of the word for opcode 0x28, the low one for 0x20.
ReadFlashAddress(cmd) == 2 * (cmd[2] * 256 + cmd[3]) + (IF cmd[1] = 40 THEN 1 ELSE 0)

\* The cell a flash read of byte address a selects: the command carries 16
\* bits of a >> 1 and the bit a & 1 (lines 318-321).
FlashCell(a) == a % (2 * 65536)

\* r4 of a flash read.
TargetReadFlash(mem, cmd) == FlashByte(mem, ReadFlashAddress(cmd))

\* The page buffer of the target before any load.
EmptyPageBuffer == [k \in 0..(ATTINY13_PAGE_SIZE - 1) |-> 255]

\* What the faultless target does with the commands cmds[k..]: a chip erase
\* (line 258) erases every cell, a load (lines 288, 290) puts its byte (the
\* 8 bits transfer_byte sends) into the page buffer at the word index it
\* carries, a page write (line 299)
\* stores the buffer at the word address it carries and empties the buffer.
RECURSIVE TargetRun(_, _, _, _)
TargetRun(cmds, k, buf, mem) ==
    IF k > Len(cmds) THEN mem
    ELSE LET c == cmds[k]
         IN  IF c[1] = 172 /\ c[2] = 128
             THEN TargetRun(cmds, k + 1, buf, ErasedFlash)
             ELSE IF c[1] = 64
             THEN TargetRun(cmds, k + 1,
                     [buf EXCEPT ![2 * (c[3] % ATTINY13_WORDS_PER_PAGE)] = c[4] % 256], mem)
             ELSE IF c[1] = 72
             THEN TargetRun(cmds, k + 1,
                     [buf EXCEPT ![2 * (c[3] % ATTINY13_WORDS_PER_PAGE) + 1] = c[4] % 256], mem)
             ELSE IF c[1] = 76
             THEN LET base == 2 * (c[2] * 256 + c[3])
                      page == base..(base + ATTINY13_PAGE_SIZE - 1)
                  IN  TargetRun(cmds, k + 1, EmptyPageBuffer,
                         [a \in (DOMAIN mem) \cup page |->
                             IF a \in page THEN buf[a - base] ELSE mem[a]])
             ELSE TargetRun(cmds, k + 1, buf, mem)

\* The flash after the commands cmds: the faultless target executes them,
\* any other target is not known to.
TargetFlashAfter(cmds, mem) ==
    IF ideal THEN TargetRun(cmds, 1, EmptyPageBuffer, mem) ELSE mem

\* Some byte other than v.
Corrupt(v) == 255 - v

\* The contents a target that is not faultless may hold in the cells the
\* addresses of the image select, as bytes, when programming ends: for an image of at most MaxExhaustive
\* addresses every choice of FlashVals per address, for a larger one the
\* image itself, all 0xFF, all 0x00, and the image with its first byte, its
\* last byte, or its last 19 or 20 bytes corrupted.
FlashContents(data) ==
    LET keys == DictKeys(data)
        cells == {FlashCell(a) : a \in keys}
        key(c) == CHOOSE a \in keys : FlashCell(a) = c
        byte(c) == DictGet(data, key(c)) % 256
        first == FlashCell(data[1][1])
        last == FlashCell(data[Len(data)][1])
        tail(n) == {FlashCell(data[i][1]) : i \in {j \in 1..Len(data) : j > Len(data) - n}}
    IN  IF Len(data) <= MaxExhaustive
        THEN {[c \in cells |-> IF c \in Z THEN 0 ELSE IF c \in F THEN 255 ELSE byte(c)] :
                 <<Z, F>> \in {zf \in (SUBSET cells) \X (SUBSET cells) : zf[1] \cap zf[2] = {}}}
        ELSE {[c \in cells |-> byte(c)],
              [c \in cells |-> 255],
              [c \in cells |-> 0],
              [c \in cells |-> IF c = first THEN Corrupt(byte(c)) ELSE byte(c)],
              [c \in cells |-> IF c = last THEN Corrupt(byte(c)) ELSE byte(c)]}
             \cup {[c \in cells |-> IF c \in tail(n) THEN Corrupt(byte(c)) ELSE byte(c)] :
                      n \in {MAX_REPORTED_ERRORS - 1, MAX_REPORTED_ERRORS}}

\* The flash verify_flash will read, after the last iteration of the page
\* loop sent cmds.
TargetFlashLeft(cmds, mem, data) ==
    IF ideal THEN {TargetFlashAfter(cmds, mem)} ELSE FlashContents(data)

\* r3 of the programming-enable command.
TargetEchoVals == IF ideal THEN {83} ELSE EchoVals

\* Signature byte i as the target answers it.
TargetSigVals(i) == IF ideal THEN {ExpectedSignature[i + 1]} ELSE SigVals

\* r4 of the lock-bit read of display_fuse_settings: unlocked, or locked.
LockBitsVals == {255, 252}

TargetLockVals == IF ideal THEN {255} ELSE LockBitsVals

\* The level data-in is held at by a target that answers nothing: low, or
\* high by the pull-up of line 47, for the 8 bits of a byte.
SilentLineVals == {0, 255}

\* r4 of a command that reads nothing from the target: the faultless
\* target shifts out the byte it received before (the third byte of the
\* command), any other is silent.
TargetR4Vals(cmd) == IF ideal THEN {cmd[3] % 256} ELSE SilentLineVals

\* The eight levels of a byte on a line, most significant bit first.
ByteLevels(v) == [k \in 1..BITS_PER_BYTE |-> Bit(v, BITS_PER_BYTE - k)]

\* The locals of transfer_byte and the lines after send_cmd (lines 67-73)
\* has sent cmd and the target has answered r4 to its fourth byte: as the
\* fourth call of transfer_byte leaves them (data-out at the last bit sent).
XferLeft(cmd, r4) ==
    [tb_pc |-> "returned", tb_byte |-> cmd[4], tb_i |-> BITS_PER_BYTE,
     read_val |-> r4, tb_ret |-> r4, sck |-> 0,
     mosi |-> Bit(cmd[4], 0), miso_reads |-> ByteLevels(r4),
     sck_rises |-> BITS_PER_BYTE]

\* The state is as the command left it.
XferIs(x) ==
    /\ tb_pc = x.tb_pc
    /\ tb_byte = x.tb_byte
    /\ tb_i = x.tb_i
    /\ read_val = x.read_val
    /\ tb_ret = x.tb_ret
    /\ sck = x.sck
    /\ mosi = x.mosi
    /\ miso_reads = x.miso_reads
    /\ sck_rises = x.sck_rises

\* The step ends with the command cmd, answered r4.
XferAfter(cmd, r4) ==
    LET x == XferLeft(cmd, r4)
    IN  /\ tb_pc' = x.tb_pc
        /\ tb_byte' = x.tb_byte
        /\ tb_i' = x.tb_i
        /\ read_val' = x.read_val
        /\ tb_ret' = x.tb_ret
        /\ sck' = x.sck
        /\ mosi' = x.mosi
        /\ miso_reads' = x.miso_reads
        /\ sck_rises' = x.sck_rises

\* transfer_byte is not running; the lines are as init_isp (lines 85-89)
\* leaves them.
XferIdle ==
    /\ tb_pc = "idle"
    /\ tb_byte = 0
    /\ tb_i = 0
    /\ read_val = 0
    /\ tb_ret = -1
    /\ sck = 0
    /\ mosi = 0
    /\ miso_reads = <<>>
    /\ sck_rises = 0

(***************************************************************************)
(* The decisions of the code, one operator per condition.                  *)
(***************************************************************************)
\* Mutant: the echo of the programming-enable command is not looked at.
EnteredProgrammingMode_AnyEcho(r3) == TRUE

\* Line 95: programming mode is entered iff the echo is 0x53.
EnteredProgrammingMode(r3) == r3 = 83

\* Mutant: only the first two signature bytes are compared.
SignatureMatches_FirstTwo(s) == s[1] = 30 /\ s[2] = 144

\* Line 357: sig != [30, 144, 7].
SignatureMatches(s) == s = ExpectedSignature

\* Line 146: the configured high fuse must be 0xFF.
ConfigHighFuseSafe(cfg_high) == cfg_high = 255

\* Mutant: the clock-select check is left out.
ConfigCkselOk_Unchecked(cfg_low) == TRUE

\* Lines 152-153: expected_cksel = low & 0x0F must be 0x0A.
ConfigCkselOk(cfg_low) == cfg_low % 16 = 10

\* Mutant: the low fuse is written whatever its current value.
LowFuseNeedsWrite_Always(low, cfg_low) == TRUE

\* Line 159: the low fuse is written iff it differs from the configured value.
LowFuseNeedsWrite(low, cfg_low) == low # cfg_low

\* Line 165: the read-back after the write.
LowFuseWriteVerified(new_low, cfg_low) == new_low = cfg_low

\* Lines 174-190: the branch taken on the current high fuse, named by what
\* it prints; only "complete" goes on to return True.
\* (Python's `high_fuse & 0x02 == 0` is (high_fuse & 0x02) == 0.)
HighFuseVerdict(high, cfg_high) ==
    IF high # cfg_high
    THEN IF high = 254 THEN "reset_danger"
         ELSE IF Bit(high, 1) = 0 THEN "spien_danger"
         ELSE "complete"
    ELSE "complete"

\* Mutant: an empty image is programmed like any other.
NothingToProgram_Never(data) == FALSE

\* Line 343: `if not parsed_data`.
NothingToProgram(data) == Len(data) = 0

\* Mutant: the guard's result is ignored.
GuardFailed_Never(ret) == FALSE

\* Line 368: `if not program_fuses_for_9_6mhz()`.
GuardFailed(ret) == ret = "False"

\* Mutant: the loop of verify_flash never breaks.
VerifyBreaks_Never(errs) == FALSE

\* Lines 331-333: the loop of verify_flash breaks once errors >= 20.
VerifyBreaks(errs) == errs >= MAX_REPORTED_ERRORS

\* Mutant: verification passes unless the scan was cut short.
VerifyPassed_UnderCap(errs) == errs < MAX_REPORTED_ERRORS

\* Lines 334-339: verify_flash's result.
VerifyPassed(errs) == errs = 0

\* Python's str(bool), the form results are kept in.
PyBool(b) == IF b THEN "True" ELSE "False"

(***************************************************************************)
(* Initial states.                                                         *)
(***************************************************************************)
\* The state in which the script calls program_flash (after init_isp, lines
\* 85-89 and 414-416) on text `content`, built with fuse configuration
\* cfg_low, cfg_high.
InitWith(Contents, CfgLows, CfgHighs) ==
    /\ hex_content \in Contents
    /\ ATTINY13_LOW_FUSE_9_6MHZ \in CfgLows
    /\ ATTINY13_HIGH_FUSE \in CfgHighs
    /\ pc = "start"
    /\ parsed_data = <<>>
    /\ reset = 1
    /\ log = <<>>
    /\ echo = -1
    /\ sig = <<>>
    /\ low_fuse = -1
    /\ high_fuse = -1
    /\ new_low_fuse = -1
    /\ guard_ret = "none"
    /\ guard_msg = "none"
    /\ guard_calls = 0
    /\ guard_log_start = 0
    /\ prev_guard_ret = "none"
    /\ page_start = 0
    /\ verify_index = 1
    /\ errors = 0
    /\ result = "none"
    /\ retains = FALSE
    /\ fuse_mem = [low |-> 0, high |-> 0]
    /\ ideal = FALSE
    /\ flash_mem = ErasedFlash
    /\ XferIdle

Init == InitWith(HexInputs, {SHIPPED_LOW_FUSE_9_6MHZ}, {SHIPPED_HIGH_FUSE})

(***************************************************************************)
(* program_flash, lines 341-362.                                           *)
(***************************************************************************)
\* Lines 342-348: decode; nothing to program when the dict is empty.  A
\* ValueError of int() leaves program_flash as an exception.
PF_Decode ==
    /\ pc = "start"
    /\ LET parsed == parse_hex_file(hex_content)
       IN  IF parsed.raised
           THEN /\ result' = "ValueError"
                /\ pc' = "raised"
                /\ UNCHANGED parsed_data
           ELSE /\ parsed_data' = parsed.data
                /\ IF NothingToProgram(parsed.data)
                   THEN result' = "False" /\ pc' = "done"
                   ELSE result' = result /\ pc' = "start_programming"
    /\ UNCHANGED <<config_vars, xfer_vars, flash_mem, reset, log, echo, sig, guard_locals, guard_ret,
                   guard_msg, guard_calls, guard_log_start, prev_guard_ret, flash_vars, fuse_mem>>

\* start_programming (lines 91-100) and the test of line 350.
PF_StartProgramming ==
    /\ pc = "start_programming"
    /\ reset' = 0
    /\ log' = Append(log, CmdProgrammingEnable)
    /\ \E r3 \in TargetEchoVals :
          /\ echo' = r3
          /\ IF EnteredProgrammingMode(r3)
             THEN result' = result /\ pc' = "read_signature"
             ELSE result' = "False" /\ pc' = "done"
    /\ \E r4 \in TargetR4Vals(CmdProgrammingEnable) : XferAfter(CmdProgrammingEnable, r4)
    /\ UNCHANGED <<config_vars, flash_mem, parsed_data, sig, guard_locals, guard_ret,
                   guard_msg, guard_calls, guard_log_start, prev_guard_ret, flash_vars, fuse_mem>>

\* read_signature_bytes (lines 262-267) and lines 353-362.
PF_ReadSignature ==
    /\ pc = "read_signature"
    /\ log' = log \o <<CmdReadSignature(0), CmdReadSignature(1), CmdReadSignature(2)>>
    /\ \E s0 \in TargetSigVals(0), s1 \in TargetSigVals(1), s2 \in TargetSigVals(2) :
          /\ sig' = <<s0, s1, s2>>
          /\ XferAfter(CmdReadSignature(2), s2)
          /\ IF SignatureMatches(<<s0, s1, s2>>)
             THEN /\ pc' = "display"
                  /\ UNCHANGED <<reset, result>>
             ELSE /\ reset' = 1
                  /\ result' = "False"
                  /\ pc' = "done"
    /\ UNCHANGED <<config_vars, flash_mem, parsed_data, echo, guard_locals, guard_ret,
                   guard_msg, guard_calls, guard_log_start, prev_guard_ret, flash_vars, fuse_mem>>

\* Line 365 and the call of line 368.
PF_DisplayAndCallGuard ==
    /\ pc = "display"
    /\ log' = log \o DisplayCmds
    /\ guard_calls' = guard_calls + 1
    /\ guard_log_start' = Len(log')
    /\ pc' = "guard"
    /\ \E lock \in TargetLockVals : XferAfter(CmdReadLockBits, lock)
    /\ UNCHANGED <<config_vars, flash_mem, parsed_data, reset, echo, sig, guard_locals, guard_ret,
                   guard_msg, prev_guard_ret, flash_vars, result, fuse_mem>>

(***************************************************************************)
(* program_fuses_for_9_6mhz, lines 134-190.                                *)
(***************************************************************************)
\* What a fuse read returns: the target's fuse memory when it retains its
\* fuses, any value of Vals otherwise.
FuseReadVals(mem_value, Vals) == IF retains THEN {mem_value} ELSE Vals

\* Lines 140-156: read both fuses, then the two checks of the configuration.
Guard_ReadAndCheckConfig(LowVals, HighVals) ==
    /\ pc = "guard"
    /\ log' = log \o <<CmdReadLowFuse, CmdReadHighFuse>>
    /\ \E l \in FuseReadVals(fuse_mem.low, LowVals),
          h \in FuseReadVals(fuse_mem.high, HighVals) :
          /\ low_fuse' = l
          /\ high_fuse' = h
          /\ XferAfter(CmdReadHighFuse, h)
    /\ IF ~ConfigHighFuseSafe(ATTINY13_HIGH_FUSE)
       THEN guard_ret' = "False" /\ guard_msg' = "unsafe_config" /\ pc' = "guard_return"
       ELSE IF ~ConfigCkselOk(ATTINY13_LOW_FUSE_9_6MHZ)
       THEN guard_ret' = "False" /\ guard_msg' = "bad_cksel" /\ pc' = "guard_return"
       ELSE UNCHANGED <<guard_ret, guard_msg>> /\ pc' = "guard_low"
    /\ UNCHANGED <<config_vars, flash_mem, parsed_data, reset, echo, sig, new_low_fuse,
                   guard_calls, guard_log_start, prev_guard_ret, flash_vars,
                   result, fuse_mem>>

\* Lines 158-171: write the low fuse if it differs, and read it back.
Guard_LowFuse(LowVals) ==
    /\ pc = "guard_low"
    /\ IF LowFuseNeedsWrite(low_fuse, ATTINY13_LOW_FUSE_9_6MHZ)
       THEN /\ log' = log \o <<CmdWriteLowFuse(ATTINY13_LOW_FUSE_9_6MHZ), CmdReadLowFuse>>
            /\ fuse_mem' = IF retains
                           THEN [fuse_mem EXCEPT !.low = ATTINY13_LOW_FUSE_9_6MHZ]
                           ELSE fuse_mem
            /\ \E n \in FuseReadVals(fuse_mem'.low, LowVals) :
                  /\ new_low_fuse' = n
                  /\ XferAfter(CmdReadLowFuse, n)
                  /\ IF LowFuseWriteVerified(n, ATTINY13_LOW_FUSE_9_6MHZ)
                     THEN /\ UNCHANGED <<guard_ret, guard_msg>>
                          /\ pc' = "guard_high"
                     ELSE /\ guard_ret' = "False"
                          /\ guard_msg' = "low_write_failed"
                          /\ pc' = "guard_return"
       ELSE /\ pc' = "guard_high"
            /\ UNCHANGED <<xfer_vars, log, fuse_mem, new_low_fuse, guard_ret, guard_msg>>
    /\ UNCHANGED <<config_vars, flash_mem, parsed_data, reset, echo, sig, low_fuse, high_fuse,
                   guard_calls, guard_log_start, prev_guard_ret, flash_vars, result>>

\* Lines 173-190: the high fuse is never written; the current value decides.
Guard_HighFuse ==
    /\ pc = "guard_high"
    /\ guard_msg' = HighFuseVerdict(high_fuse, ATTINY13_HIGH_FUSE)
    /\ guard_ret' = PyBool(guard_msg' = "complete")
    /\ pc' = "guard_return"
    /\ UNCHANGED <<config_vars, xfer_vars, flash_mem, parsed_data, reset, log, echo, sig, guard_locals,
                   guard_calls, guard_log_start, prev_guard_ret, flash_vars,
                   result, fuse_mem>>

\* A caller that only calls the guard calls it again (at most MaxGuardCalls
\* times in all) on the same session.
Guard_CallAgain ==
    /\ pc = "guard_return"
    /\ guard_calls < MaxGuardCalls
    /\ guard_calls' = guard_calls + 1
    /\ guard_log_start' = Len(log)
    /\ prev_guard_ret' = guard_ret
    /\ guard_ret' = "none"
    /\ guard_msg' = "none"
    /\ low_fuse' = -1
    /\ high_fuse' = -1
    /\ new_low_fuse' = -1
    /\ pc' = "guard"
    /\ UNCHANGED <<config_vars, xfer_vars, flash_mem, parsed_data, reset, log, echo, sig, flash_vars,
                   result, fuse_mem>>

(***************************************************************************)
(* program_flash, lines 367-399.                                           *)
(***************************************************************************)
\* Lines 368-376: abort when the guard returned False; otherwise display the
\* fuses again and erase the chip.  The guard's locals end with its call.
PF_AfterGuard ==
    /\ pc = "guard_return"
    /\ low_fuse' = -1
    /\ high_fuse' = -1
    /\ new_low_fuse' = -1
    /\ IF GuardFailed(guard_ret)
       THEN /\ reset' = 1
            /\ result' = "False"
            /\ pc' = "done"
            /\ UNCHANGED <<xfer_vars, log, flash_mem>>
       ELSE /\ log' = (log \o DisplayCmds) \o <<CmdChipErase>>
            /\ flash_mem' = TargetFlashAfter(<<CmdChipErase>>, flash_mem)
            /\ \E r4 \in TargetR4Vals(CmdChipErase) : XferAfter(CmdChipErase, r4)
            /\ pc' = "pages"
            /\ UNCHANGED <<reset, result>>
    /\ UNCHANGED <<config_vars, parsed_data, echo, sig, guard_ret, guard_msg,
                   guard_calls, guard_log_start, prev_guard_ret, flash_vars, fuse_mem>>

\* Lines 379-394: one iteration of the page loop.
PF_Page ==
    /\ pc = "pages"
    /\ LET cmds == IF PageHasData(parsed_data, page_start)
                   THEN ProgramPageCmds(page_start, PageData(parsed_data, page_start))
                   ELSE <<>>
       IN  /\ log' = log \o cmds
           /\ IF Len(cmds) = 0
              THEN UNCHANGED xfer_vars
              ELSE \E r4 \in TargetR4Vals(cmds[Len(cmds)]) : XferAfter(cmds[Len(cmds)], r4)
           /\ IF page_start + ATTINY13_PAGE_SIZE < FLASH_SIZE
              THEN /\ pc' = "pages"
                   /\ flash_mem' = TargetFlashAfter(cmds, flash_mem)
              ELSE /\ pc' = "verify"
                   /\ flash_mem' \in TargetFlashLeft(cmds, flash_mem, parsed_data)
    /\ page_start' = page_start + ATTINY13_PAGE_SIZE
    /\ UNCHANGED <<config_vars, parsed_data, reset, echo, sig, guard_locals, guard_ret,
                   guard_msg, guard_calls, guard_log_start, prev_guard_ret, verify_index, errors,
                   result, fuse_mem>>

\* verify_flash, lines 326-333: one iteration of its loop.
VF_Step ==
    /\ pc = "verify"
    /\ verify_index <= Len(parsed_data)
    /\ LET addr == parsed_data[verify_index][1]
           expected == parsed_data[verify_index][2]
       IN  /\ log' = Append(log, CmdReadFlash(addr))
           /\ LET actual == TargetReadFlash(flash_mem, CmdReadFlash(addr))
              IN /\ XferAfter(CmdReadFlash(addr), actual)
                 /\ errors' = IF actual # expected THEN errors + 1 ELSE errors
                 /\ pc' = IF (actual # expected /\ VerifyBreaks(errors + 1))
                             \/ verify_index = Len(parsed_data)
                          THEN "verify_end" ELSE "verify"
    /\ verify_index' = verify_index + 1
    /\ UNCHANGED <<config_vars, flash_mem, parsed_data, reset, echo, sig, guard_locals, guard_ret,
                   guard_msg, guard_calls, guard_log_start, prev_guard_ret, page_start,
                   result, fuse_mem>>

\* Lines 334-339 and 397-399: verify_flash returns, the session is released.
PF_Finish ==
    /\ pc = "verify_end"
    /\ reset' = 1
    /\ result' = PyBool(VerifyPassed(errors))
    /\ pc' = "done"
    /\ UNCHANGED <<config_vars, xfer_vars, flash_mem, parsed_data, log, echo, sig, guard_locals, guard_ret,
                   guard_msg, guard_calls, guard_log_start, prev_guard_ret, flash_vars, fuse_mem>>

(***************************************************************************)
(* Specifications.                                                         *)
(***************************************************************************)
\* One run of program_flash on any of the texts, as the script is shipped.
Next ==
    \/ PF_Decode
    \/ PF_StartProgramming
    \/ PF_ReadSignature
    \/ PF_DisplayAndCallGuard
    \/ Guard_ReadAndCheckConfig(LowFuseVals, HighFuseSamples)
    \/ Guard_LowFuse(LowFuseVals)
    \/ Guard_HighFuse
    \/ PF_AfterGuard
    \/ PF_Page
    \/ VF_Step
    \/ PF_Finish

Spec == Init /\ [][Next]_vars

\* The same run under every fuse configuration a build may carry.
InitCfg == InitWith(SpecialTexts, ConfigLowVals, ConfigHighVals)

SpecCfg == InitCfg /\ [][Next]_vars

\* A flash that still holds an earlier program: every cell 0x00.
OldProgram == [a \in 0..(FLASH_SIZE - 1) |-> 0]

\* The run of program_flash on a faultless target: it echoes 0x53, has the
\* ATtiny13 signature, keeps its fuses (high fuse 0xFF, any low fuse of
\* LowFuseVals) and the writes to them, and its flash does what the erase,
\* load and page-write commands say.  The flash is blank or holds an
\* earlier program.
InitIdeal ==
    /\ hex_content \in HexInputs
    /\ ATTINY13_LOW_FUSE_9_6MHZ = SHIPPED_LOW_FUSE_9_6MHZ
    /\ ATTINY13_HIGH_FUSE = SHIPPED_HIGH_FUSE
    /\ pc = "start"
    /\ parsed_data = <<>>
    /\ reset = 1
    /\ log = <<>>
    /\ echo = -1
    /\ sig = <<>>
    /\ low_fuse = -1
    /\ high_fuse = -1
    /\ new_low_fuse = -1
    /\ guard_ret = "none"
    /\ guard_msg = "none"
    /\ guard_calls = 0
    /\ guard_log_start = 0
    /\ prev_guard_ret = "none"
    /\ page_start = 0
    /\ verify_index = 1
    /\ errors = 0
    /\ result = "none"
    /\ retains = TRUE
    /\ fuse_mem \in [low : LowFuseVals, high : {SHIPPED_HIGH_FUSE}]
    /\ ideal = TRUE
    /\ flash_mem \in {ErasedFlash, OldProgram}
    /\ XferIdle

SpecIdeal == InitIdeal /\ [][Next]_vars

(***************************************************************************)
(* transfer_byte, lines 54-65, one action per statement that touches a     *)
(* line.                                                                   *)
(***************************************************************************)
\* Mutant: the byte is sent least significant bit first.
OutBit_LsbFirst(byte, i) == Bit(byte, i)

\* Line 57: bit = (byte >> (7 - i)) & 0x01.
OutBit(byte, i) == Bit(byte, (BITS_PER_BYTE - 1) - i)

\* Line 62: (read_val << 1) | miso.value(), the shifted value being even.
ShiftIn(val, level) == (val * 2) + level

\* The levels miso.value() may return.
MisoLevels == {0, 1}

\* Lines 54-55: the call, with any byte; the lines are as init_isp or the
\* call before left them.
TB_Call ==
    /\ tb_pc \in {"idle", "returned"}
    /\ tb_byte' \in AllBytes
    /\ read_val' = 0
    /\ tb_i' = 0
    /\ tb_ret' = -1
    /\ miso_reads' = <<>>
    /\ sck_rises' = 0
    /\ tb_pc' = "set_mosi"
    /\ UNCHANGED <<program_vars, sck, mosi>>

\* Lines 56-59: the loop goes on; the bit is put on the data-out line.
TB_SetMosi ==
    /\ tb_pc = "set_mosi"
    /\ tb_i < BITS_PER_BYTE
    /\ mosi' = OutBit(tb_byte, tb_i)
    /\ tb_pc' = "raise"
    /\ UNCHANGED <<program_vars, tb_byte, tb_i, read_val, tb_ret, sck, miso_reads, sck_rises>>

\* Lines 60-61: the clock goes high.
TB_RaiseClock ==
    /\ tb_pc = "raise"
    /\ sck' = 1
    /\ sck_rises' = IF sck = 0 THEN sck_rises + 1 ELSE sck_rises
    /\ tb_pc' = "sample"
    /\ UNCHANGED <<program_vars, tb_byte, tb_i, read_val, tb_ret, mosi, miso_reads>>

\* Line 62: data-in is read and shifted in.
TB_Sample ==
    /\ tb_pc = "sample"
    /\ \E level \in MisoLevels :
          /\ read_val' = ShiftIn(read_val, level)
          /\ miso_reads' = Append(miso_reads, level)
    /\ tb_pc' = "lower"
    /\ UNCHANGED <<program_vars, tb_byte, tb_i, tb_ret, sck, mosi, sck_rises>>

\* Lines 63-64 and the next i.
TB_LowerClock ==
    /\ tb_pc = "lower"
    /\ sck' = 0
    /\ tb_i' = tb_i + 1
    /\ tb_pc' = "set_mosi"
    /\ UNCHANGED <<program_vars, tb_byte, read_val, tb_ret, mosi, miso_reads, sck_rises>>

\* Line 65: the loop is over, read_val is returned.
TB_Return ==
    /\ tb_pc = "set_mosi"
    /\ tb_i >= BITS_PER_BYTE
    /\ tb_ret' = read_val
    /\ tb_pc' = "returned"
    /\ UNCHANGED <<program_vars, tb_byte, tb_i, read_val, sck, mosi, miso_reads, sck_rises>>

\* Calls of transfer_byte, the first on the lines as init_isp left them.
InitXfer == InitWith({hex_file_content}, {SHIPPED_LOW_FUSE_9_6MHZ}, {SHIPPED_HIGH_FUSE})

NextXfer ==
    \/ TB_Call
    \/ TB_SetMosi
    \/ TB_RaiseClock
    \/ TB_Sample
    \/ TB_LowerClock
    \/ TB_Return

SpecXfer == InitXfer /\ [][NextXfer]_vars

\* program_fuses_for_9_6mhz called, up to MaxGuardCalls times, on an active
\* session of the shipped script: every 8-bit high fuse, and a target that
\* either retains its fuses or answers anything.
InitGuard ==
    /\ hex_content = hex_file_content
    /\ ATTINY13_LOW_FUSE_9_6MHZ = SHIPPED_LOW_FUSE_9_6MHZ
    /\ ATTINY13_HIGH_FUSE = SHIPPED_HIGH_FUSE
    /\ pc = "guard"
    /\ parsed_data = parse_hex_file(hex_file_content).data
    /\ reset = 0
    /\ log = <<CmdProgrammingEnable>>
    /\ echo = 83
    /\ sig = <<>>
    /\ low_fuse = -1
    /\ high_fuse = -1
    /\ new_low_fuse = -1
    /\ guard_ret = "none"
    /\ guard_msg = "none"
    /\ guard_calls = 1
    /\ guard_log_start = 1
    /\ prev_guard_ret = "none"
    /\ page_start = 0
    /\ verify_index = 1
    /\ errors = 0
    /\ result = "none"
    /\ retains \in BOOLEAN
    /\ fuse_mem \in IF retains
                    THEN [low : LowFuseVals, high : AllBytes]
                    ELSE {[low |-> 0, high |-> 0]}
    /\ ideal = FALSE
    /\ flash_mem = ErasedFlash
    /\ \E r4 \in TargetR4Vals(CmdProgrammingEnable) : XferIs(XferLeft(CmdProgrammingEnable, r4))

NextGuard ==
    \/ Guard_ReadAndCheckConfig(LowFuseVals, AllBytes)
    \/ Guard_LowFuse(LowFuseVals)
    \/ Guard_HighFuse
    \/ Guard_CallAgain

SpecGuard == InitGuard /\ [][NextGuard]_vars

(***************************************************************************)
(* The fuse functions of lines 110-132, called one by one by a caller that *)
(* holds an open session (at most MaxApiCalls calls).  program_flash calls *)
(* write_high_fuse nowhere; a caller of the module can.                    *)
(***************************************************************************)
\* The target's fuses after a write of `value` (the 8 bits sent) to `fuse`.
FuseMemAfterWrite(fuse, value) ==
    IF retains THEN [fuse_mem EXCEPT ![fuse] = value % 256] ELSE fuse_mem

ApiCallAllowed == pc = "api" /\ Len(log) <= MaxApiCalls

\* read_low_fuse (lines 110-112); the value returned is kept in low_fuse.
Api_ReadLowFuse ==
    /\ ApiCallAllowed
    /\ log' = Append(log, CmdReadLowFuse)
    /\ \E l \in FuseReadVals(fuse_mem.low, LowFuseVals) :
          /\ low_fuse' = l
          /\ XferAfter(CmdReadLowFuse, l)
    /\ UNCHANGED <<config_vars, flash_mem, pc, parsed_data, reset, echo, sig,
                   high_fuse, new_low_fuse, guard_ret, guard_msg, guard_calls,
                   guard_log_start, prev_guard_ret, flash_vars, result, fuse_mem>>

\* read_high_fuse (lines 114-116); the value returned is kept in high_fuse.
Api_ReadHighFuse ==
    /\ ApiCallAllowed
    /\ log' = Append(log, CmdReadHighFuse)
    /\ \E h \in FuseReadVals(fuse_mem.high, HighFuseSamples) :
          /\ high_fuse' = h
          /\ XferAfter(CmdReadHighFuse, h)
    /\ UNCHANGED <<config_vars, flash_mem, pc, parsed_data, reset, echo, sig,
                   low_fuse, new_low_fuse, guard_ret, guard_msg, guard_calls,
                   guard_log_start, prev_guard_ret, flash_vars, result, fuse_mem>>

\* write_low_fuse(fuse_value) (lines 122-126).
Api_WriteLowFuse ==
    /\ ApiCallAllowed
    /\ \E fuse_value \in LowFuseVals :
          /\ log' = Append(log, CmdWriteLowFuse(fuse_value))
          /\ fuse_mem' = FuseMemAfterWrite("low", fuse_value)
          /\ \E r4 \in TargetR4Vals(CmdWriteLowFuse(fuse_value)) :
                XferAfter(CmdWriteLowFuse(fuse_value), r4)
    /\ UNCHANGED <<config_vars, flash_mem, pc, parsed_data, reset, echo, sig,
                   guard_locals, guard_ret, guard_msg, guard_calls,
                   guard_log_start, prev_guard_ret, flash_vars, result>>

\* write_high_fuse(fuse_value) (lines 128-132).
Api_WriteHighFuse ==
    /\ ApiCallAllowed
    /\ \E fuse_value \in HighFuseSamples :
          /\ log' = Append(log, CmdWriteHighFuse(fuse_value))
          /\ fuse_mem' = FuseMemAfterWrite("high", fuse_value)
          /\ \E r4 \in TargetR4Vals(CmdWriteHighFuse(fuse_value)) :
                XferAfter(CmdWriteHighFuse(fuse_value), r4)
    /\ UNCHANGED <<config_vars, flash_mem, pc, parsed_data, reset, echo, sig,
                   guard_locals, guard_ret, guard_msg, guard_calls,
                   guard_log_start, prev_guard_ret, flash_vars, result>>

InitFuseApi ==
    /\ hex_content = hex_file_content
    /\ ATTINY13_LOW_FUSE_9_6MHZ = SHIPPED_LOW_FUSE_9_6MHZ
    /\ ATTINY13_HIGH_FUSE = SHIPPED_HIGH_FUSE
    /\ pc = "api"
    /\ parsed_data = <<>>
    /\ reset = 0
    /\ log = <<CmdProgrammingEnable>>
    /\ echo = 83
    /\ sig = <<>>
    /\ low_fuse = -1
    /\ high_fuse = -1
    /\ new_low_fuse = -1
    /\ guard_ret = "none"
    /\ guard_msg = "none"
    /\ guard_calls = 0
    /\ guard_log_start = 0
    /\ prev_guard_ret = "none"
    /\ page_start = 0
    /\ verify_index = 1
    /\ errors = 0
    /\ result = "none"
    /\ retains \in BOOLEAN
    /\ fuse_mem \in IF retains
                    THEN [low : LowFuseVals, high : HighFuseSamples]
                    ELSE {[low |-> 0, high |-> 0]}
    /\ ideal = FALSE
    /\ flash_mem = ErasedFlash
    /\ \E r4 \in TargetR4Vals(CmdProgrammingEnable) : XferIs(XferLeft(CmdProgrammingEnable, r4))

NextFuseApi ==
    \/ Api_ReadLowFuse
    \/ Api_ReadHighFuse
    \/ Api_WriteLowFuse
    \/ Api_WriteHighFuse

SpecFuseApi == InitFuseApi /\ [][NextFuseApi]_vars

(***************************************************************************)
(* Properties.                                                             *)
(***************************************************************************)
\* The kinds of command, by opcode (lines 125, 131, 258, 288, 290, 299).
IsFuseWrite(c) == c[1] = 172 /\ c[2] \in {160, 168}

IsChipErase(c) == c[1] = 172 /\ c[2] = 128

IsPageLoad(c) == c[1] \in {64, 72}

IsPageCommit(c) == c[1] = 76

IsFlashWrite(c) == IsChipErase(c) \/ IsPageLoad(c) \/ IsPageCommit(c)

IsTargetWrite(c) == IsFuseWrite(c) \/ IsFlashWrite(c)

\* The commands of l after its first `from` ones.
CmdsSince(l, from) == {l[i] : i \in (from + 1)..Len(l)}

NoFuseWriteSince(l, from) == \A c \in CmdsSince(l, from) : ~IsFuseWrite(c)

CountOf(l, c) == Cardinality({i \in 1..Len(l) : l[i] = c})

PageStarts == {p \in 0..(FLASH_SIZE - 1) : p % ATTINY13_PAGE_SIZE = 0}

\* C1: in every run of program_flash in which start_programming asserted the
\* reset line (the programming-enable command was sent), the reset line is
\* released again when program_flash has returned, whatever the outcome.
C1_ResetReleasedOnEveryReturn ==
    (pc = "done" /\ Len(log) > 0) => reset = 1

\* C2: a fuse write, the chip erase, a page load or a page commit is sent only
\* while the session is active: reset is low, the programming-enable command
\* echoed 0x53, and the step that sends it does not release reset before.
C2_WritesOnlyInActiveSession ==
    [][\A i \in (Len(log) + 1)..Len(log') :
          IsTargetWrite(log'[i]) => (reset = 0 /\ reset' = 0 /\ echo = 83)]_vars

C2_Witness ==
    /\ pc = "verify"
    /\ reset = 0
    /\ echo = 83
    /\ \E i \in 1..Len(log) : IsFuseWrite(log[i])
    /\ \E i \in 1..Len(log) : IsChipErase(log[i])
    /\ \E i \in 1..Len(log) : IsPageLoad(log[i])
    /\ \E i \in 1..Len(log) : IsPageCommit(log[i])

\* C3: whenever the guard read a current high fuse of 0xFE it returns False
\* having sent no fuse write during that call, whatever the current low
\* fuse; program_flash then returns False and releases the reset line.
C3_HighFuseFERefusedBeforeAnyWrite ==
    [][/\ (pc' = "guard_return" /\ high_fuse' = 254)
            => (guard_ret' = "False" /\ NoFuseWriteSince(log', guard_log_start'))
       /\ (pc = "guard_return" /\ high_fuse = 254)
            => (pc' = "done" /\ result' = "False" /\ reset' = 1)]_vars

\* C4: for every 8-bit current high fuse whose RSTDISBL bit (bit 7, as
\* display_fuse_settings decodes it) or SPIEN bit (bit 1) is 0, the guard
\* returns False.
C4_DangerousHighFuseRefused ==
    (/\ pc = "guard_return"
     /\ high_fuse \in AllBytes
     /\ (Bit(high_fuse, 7) = 0 \/ Bit(high_fuse, 1) = 0))
        => guard_ret = "False"

\* The configurations the guard must refuse.
C5_BadConfig ==
    ATTINY13_HIGH_FUSE # 255 \/ ATTINY13_LOW_FUSE_9_6MHZ % 16 # 10

\* C5: when the configured target high fuse is not 0xFF or the clock-select
\* nibble of the configured target low fuse is not 0x0A, the guard returns
\* False and no fuse write (low or high) is ever sent, whatever the current
\* fuses of the target are.
C5_UnsafeConfigNeverWrites ==
    C5_BadConfig =>
        /\ NoFuseWriteSince(log, 0)
        /\ pc \notin {"guard_low", "guard_high"}
        /\ pc = "guard_return" => guard_ret = "False"

C5_Witness ==
    /\ pc = "guard_return"
    /\ ATTINY13_HIGH_FUSE = 127
    /\ ATTINY13_LOW_FUSE_9_6MHZ = 98
    /\ low_fuse = 106
    /\ high_fuse = 253

\* C6: a call of the guard that read a current low fuse equal to the
\* configured one sends no fuse write; and on a target that retains its
\* fuses, a call that follows a call that returned True sends no fuse write
\* and returns True too.
C6_GuardIdempotent ==
    /\ (pc \in {"guard_low", "guard_high", "guard_return"}
        /\ low_fuse = ATTINY13_LOW_FUSE_9_6MHZ)
          => NoFuseWriteSince(log, guard_log_start)
    /\ (pc = "guard_return" /\ retains /\ prev_guard_ret = "True")
          => (guard_ret = "True" /\ NoFuseWriteSince(log, guard_log_start))

C6_Witness ==
    /\ pc = "guard_return"
    /\ retains
    /\ guard_calls = 2
    /\ prev_guard_ret = "True"
    /\ guard_ret = "True"
    /\ \E i \in 1..Len(log) : IsFuseWrite(log[i])

\* C7: once the guard has returned False (a safety check refused, or the low
\* fuse read back differs from the value written), program_flash sends no
\* chip erase, page load or page commit and returns False.
C7_GuardFailureStopsRun ==
    guard_ret = "False" =>
        /\ \A i \in 1..Len(log) : ~IsFlashWrite(log[i])
        /\ pc \in {"guard_return", "done"}
        /\ pc = "done" => result = "False"

C7_Witness ==
    /\ pc = "done"
    /\ guard_msg = "low_write_failed"
    /\ result = "False"
    /\ \E i \in 1..Len(log) : IsFuseWrite(log[i])

\* C8: for every signature read that differs from [0x1E, 0x90, 0x07],
\* program_flash returns False having sent no fuse write, chip erase, page
\* load or page commit, and with the reset line released.
C8_WrongSignatureAborts ==
    (Len(sig) = 3 /\ sig # <<30, 144, 7>>) =>
        /\ pc = "done"
        /\ result = "False"
        /\ reset = 1
        /\ \A i \in 1..Len(log) : ~IsTargetWrite(log[i])

C8_Witness ==
    /\ sig = <<30, 144, 8>>
    /\ pc = "done"
    /\ result = "False"
    /\ reset = 1

\* The texts of C9, read off the lines of the text (a sequence of lines):
\* every record line up to the first EOF record has its eight header digits
\* and a type field, and none of them is a data record (type 00) with a
\* byte count other than 00.
\* A hex digit as a record is written with: 0-9, A-F, a-f.
C9_HexDigit(c) == c \in (48..57) \cup (65..70) \cup (97..102)

C9_HeaderOk(line) ==
    /\ Len(line) >= 9
    /\ \A k \in 2..9 : C9_HexDigit(line[k])

\* The type fields of a data record and of an EOF record, and a byte count
\* of zero.
C9_Type00 == Codes("00")

C9_Type01 == Codes("01")

C9_TypeIs(line, t) == C9_HeaderOk(line) /\ <<line[8], line[9]>> = t

C9_RecordIndices(text) == {i \in 1..Len(text) : Len(text[i]) > 0 /\ text[i][1] = Colon}

C9_FirstEof(text) ==
    LET eofs == {i \in C9_RecordIndices(text) : C9_TypeIs(text[i], C9_Type01)}
    IN  IF eofs = {} THEN Len(text)
        ELSE CHOOSE i \in eofs : \A j \in eofs : i <= j

C9_ZeroDataText(text) ==
    \A i \in C9_RecordIndices(text) :
        i <= C9_FirstEof(text) =>
            /\ C9_HeaderOk(text[i])
            /\ C9_TypeIs(text[i], C9_Type00) => <<text[i][2], text[i][3]>> = C9_Type00

\* C9: for every text that holds no data byte before its first EOF record
\* (its records up to there are well formed and none is a data record with
\* bytes), parse_hex_file returns the empty dict and program_flash returns
\* False having sent no command and never asserted the reset line.  Nor is
\* a command sent or reset asserted while no image has been decoded at all.
C9_EmptyImageTouchesNothing ==
    /\ C9_ZeroDataText(StripSplitLines(hex_content)) =>
          /\ parse_hex_file(hex_content) = [raised |-> FALSE, data |-> <<>>]
          /\ pc # "start" => (pc = "done" /\ result = "False")
          /\ parsed_data = <<>>
    /\ parsed_data = <<>> => (log = <<>> /\ reset = 1 /\ echo = -1)

C9_Witness ==
    /\ hex_content = JoinLines(<<EofLine, RecordLine(2, 0, 0, <<9, 192>>)>>)
    /\ pc = "done"
    /\ result = "False"
    /\ log = <<>>

\* Whether the decoded image holds an address of the page that starts at p,
\* and the page-commit command of that page.
C10_ImageInPage(p) == \E a \in DictKeys(parsed_data) : p <= a /\ a < p + 32

C10_CommitOf(p) == <<76, (p \div 2) \div 256, (p \div 2) % 256, 0>>

\* C10: for every page start p of the flash, the page-commit command of p has
\* been sent once the page loop has passed p iff the image holds an address
\* in [p, p+32), and then exactly once; a page without image address gets no
\* page load and no page commit (page loads come 32 to a committed page).
C10_PagesWithDataCommittedOnce ==
    /\ \A p \in PageStarts :
          CountOf(log, C10_CommitOf(p)) =
              IF p < page_start /\ C10_ImageInPage(p) THEN 1 ELSE 0
    /\ Cardinality({i \in 1..Len(log) : IsPageCommit(log[i])})
          = Cardinality({p \in PageStarts : p < page_start /\ C10_ImageInPage(p)})
    /\ Cardinality({i \in 1..Len(log) : IsPageLoad(log[i])})
          = 32 * Cardinality({p \in PageStarts : p < page_start /\ C10_ImageInPage(p)})

C10_Witness ==
    /\ pc = "verify"
    /\ page_start = FLASH_SIZE
    /\ DictKeys(parsed_data) = {31, 32, 1023, 1024}
    /\ CountOf(log, C10_CommitOf(0)) = 1
    /\ CountOf(log, C10_CommitOf(64)) = 0


(***************************************************************************)
(* verify_flash.                                                           *)
(***************************************************************************)
\* verify_flash has returned (it reads at least one address, the image
\* being non-empty).
VerifyReturned == pc = "done" /\ verify_index > 1

\* Every address of the image holds the image's byte in the target's flash.
FlashHoldsImage ==
    \A a \in DictKeys(parsed_data) :
        FlashByte(flash_mem, FlashCell(a)) = DictGet(parsed_data, a)

\* C11: verify_flash returns True exactly when every address of the image
\* reads back the image's byte: whatever the image and whatever the flash
\* holds, the result of a run that verified is True iff no address of the
\* image differs in the flash.
C11_VerifyTrueIffFlashHoldsImage ==
    VerifyReturned => (result = "True" <=> FlashHoldsImage)

\* A verification of several addresses that passed.
C11_Witness ==
    /\ VerifyReturned
    /\ result = "True"
    /\ Len(parsed_data) >= 2
    /\ verify_index = Len(parsed_data) + 1


(***************************************************************************)
(* parse_hex_file.                                                         *)
(***************************************************************************)
\* The fields of a record line, read digit by digit off the text.
C12_Digit(line, k) == HexDigitValue(line[k])

C12_Count(line) == 16 * C12_Digit(line, 2) + C12_Digit(line, 3)

C12_Address(line) ==
    4096 * C12_Digit(line, 4) + 256 * C12_Digit(line, 5)
        + 16 * C12_Digit(line, 6) + C12_Digit(line, 7)

\* Payload byte j (from 0) of a data record.
C12_Payload(line, j) == 16 * C12_Digit(line, 10 + 2 * j) + C12_Digit(line, 11 + 2 * j)

\* The data records that count: type 00, up to the first EOF record.
C12_DataRecords(text) ==
    LET eof == C9_FirstEof(text)
    IN  {i \in C9_RecordIndices(text) : i <= eof /\ C9_TypeIs(text[i], C9_Type00)}

\* A text whose records up to the first EOF record have their header, and
\* whose data records have all the payload digits their byte count announces.
C12_WellFormed(text) ==
    LET eof == C9_FirstEof(text)
    IN  /\ \A i \in C9_RecordIndices(text) : i <= eof => C9_HeaderOk(text[i])
        /\ \A i \in C12_DataRecords(text) :
              /\ Len(text[i]) >= 9 + 2 * C12_Count(text[i])
              /\ \A k \in 10..(9 + 2 * C12_Count(text[i])) : C9_HexDigit(text[i][k])

\* The addresses the data records recs of the text hold.
C12_Addresses(text, recs) ==
    UNION {C12_Address(text[i])..(C12_Address(text[i]) + C12_Count(text[i]) - 1) :
              i \in recs}

\* The byte the last of the records recs that hold address a gives it.
C12_ByteAt(text, recs, a) ==
    LET covering == {i \in recs :
                        C12_Address(text[i]) <= a
                            /\ a < C12_Address(text[i]) + C12_Count(text[i])}
        last == CHOOSE i \in covering : \A j \in covering : j <= i
    IN  C12_Payload(text[last], a - C12_Address(text[last]))

\* C12: for a well-formed text, the dict parse_hex_file returns (the image
\* program_flash holds once it has decoded) is exactly the map of the data
\* records before the first EOF record: its keys are the addresses A..A+N-1
\* of those records, each key once, and each address has the payload byte,
\* read from its two hex digits, of the last record that holds it; lines
\* without a leading colon, records of other types and lines after the
\* first EOF record add nothing.  Decoding such a text raises no error.
C12_ParsedImageIsDataRecords ==
    LET text == StripSplitLines(hex_content)
    IN  (pc # "start" /\ C12_WellFormed(text)) =>
            LET recs == C12_DataRecords(text)
            IN  /\ pc # "raised"
                /\ DictKeys(parsed_data) = C12_Addresses(text, recs)
                /\ Cardinality(DictKeys(parsed_data)) = Len(parsed_data)
                /\ \A a \in DictKeys(parsed_data) :
                      DictGet(parsed_data, a) = C12_ByteAt(text, recs, a)

\* A later data record has overridden an address of an earlier one.
C12_Witness ==
    /\ hex_content = JoinLines(<<RecordLine(2, 0, 0, <<9, 192>>), RecordLine(1, 1, 0, <<171>>)>>)
    /\ pc = "start_programming"
    /\ parsed_data = <<<<0, 9>>, <<1, 171>>>>


(***************************************************************************)
(* The order of the flash commands.                                        *)
(***************************************************************************)
\* A flash read of verify_flash (opcodes 0x20 and 0x28, line 320).
IsFlashRead(c) == c[1] \in {32, 40}

\* Where in the log the commands of each kind stand.
IndicesOf(l, Kind(_)) == {i \in 1..Len(l) : Kind(l[i])}

\* The word address a page commit carries.
CommitWordAddress(c) == c[2] * 256 + c[3]

\* The k-th (from 1) of the 32 loads of a page is the low byte (opcode 0x40)
\* of word (k-1) div 2 when k is odd, the high byte (0x48) when k is even.
IsLoadNumber(c, k) ==
    /\ c[1] = IF k % 2 = 1 THEN 64 ELSE 72
    /\ c[2] = 0
    /\ c[3] = (k - 1) \div 2

\* C13: in the command log of every run, (a) the chip erase occurs at most
\* once, exactly once when the run has passed the guard, and before every
\* page load and commit; (b) the 32 commands just before each page commit
\* are the loads low 0, high 0, low 1, ..., high 15 in that order, and every
\* page load is one of these, so no command of another page stands between
\* them; (c) commits carry ascending word addresses; (d) every flash read of
\* the verification stands after every page commit.
C13_FlashCommandOrder ==
    LET erases == IndicesOf(log, IsChipErase)
        loads == IndicesOf(log, IsPageLoad)
        commits == IndicesOf(log, IsPageCommit)
        reads == IndicesOf(log, IsFlashRead)
    IN  /\ Cardinality(erases) <= 1
        /\ (pc \in {"pages", "verify", "verify_end"} \/ reads # {}) => Cardinality(erases) = 1
        /\ \A i \in loads \cup commits : \E e \in erases : e < i
        /\ \A i \in commits :
              /\ i > 2 * ATTINY13_WORDS_PER_PAGE
              /\ \A k \in 1..(2 * ATTINY13_WORDS_PER_PAGE) :
                    IsLoadNumber(log[i - 2 * ATTINY13_WORDS_PER_PAGE - 1 + k], k)
        /\ \A j \in loads : \E i \in commits : i - 2 * ATTINY13_WORDS_PER_PAGE <= j /\ j < i
        /\ \A i, j \in commits :
              i < j => CommitWordAddress(log[i]) < CommitWordAddress(log[j])
        /\ \A r \in reads : \A i \in commits : i < r

\* A run that committed two pages and has read the flash back.
C13_Witness ==
    /\ pc = "done"
    /\ Cardinality(IndicesOf(log, IsPageCommit)) = 2
    /\ Cardinality(IndicesOf(log, IsFlashRead)) >= 2


(***************************************************************************)
(* The payload of the flash commands.                                      *)
(***************************************************************************)
\* The image's byte at address a, 0xFF where it has none.
C14_ImageOrFF(a) == IF DictHas(parsed_data, a) THEN DictGet(parsed_data, a) ELSE 255

\* The commit at log index i is that of page p, and the 32 loads before it
\* carry the bytes of p.
C14_CommitsPage(i, p) ==
    /\ log[i] = <<76, ((p \div 2) \div 256) % 256, (p \div 2) % 256, 0>>
    /\ \A w \in 0..(ATTINY13_WORDS_PER_PAGE - 1) :
          /\ log[i - 32 + 2 * w] = <<64, 0, w, C14_ImageOrFF(p + 2 * w)>>
          /\ log[i - 31 + 2 * w] = <<72, 0, w, C14_ImageOrFF(p + 2 * w + 1)>>

\* C14: every page commit in the log is the commit of a page p of the flash
\* that the image has data in: it carries the word address p/2 as high byte
\* (p/2) >> 8 and low byte (p/2) & 0xFF, and for every word index w in 0..15
\* the low-byte load before it carries image[p+2w] and the high-byte load
\* image[p+2w+1], 0xFF where the image has no such address.  Every page with
\* data that the page loop has passed has such a commit.
C14_LoadsCarryImageOrFF ==
    /\ \A i \in IndicesOf(log, IsPageCommit) :
          \E p \in PageStarts : C10_ImageInPage(p) /\ C14_CommitsPage(i, p)
    /\ \A p \in PageStarts :
          (p < page_start /\ C10_ImageInPage(p)) =>
              \E i \in IndicesOf(log, IsPageCommit) : C14_CommitsPage(i, p)

\* The page at 0x03E0 (word address 0x01F0) was committed with one image
\* byte and 0xFF around it.
C14_Witness ==
    /\ pc = "verify"
    /\ \E i \in 1..Len(log) :
          /\ log[i] = <<76, 1, 240, 0>>
          /\ log[i - 1] = <<72, 0, 15, 52>>
          /\ log[i - 2] = <<64, 0, 15, 255>>


(***************************************************************************)
(* The cap of verify_flash.                                                *)
(***************************************************************************)
\* The flash reads sent so far.
C15_Reads == Cardinality(IndicesOf(log, IsFlashRead))

\* Item k of the image differs in the target's flash.
C15_Differs(k) ==
    FlashByte(flash_mem, FlashCell(parsed_data[k][1])) # parsed_data[k][2]

\* C15: verify_flash stops at the 20th mismatch.  In every state the error
\* counter is at most 20 and equals the number of items read so far that
\* differ in the flash; the flash reads sent are at most the items of the
\* image; and once the counter is 20 the scan is over (no step of the loop
\* is left to take) with the last item read being the 20th that differs.
C15_VerifyStopsAtCap ==
    /\ errors <= MAX_REPORTED_ERRORS
    /\ C15_Reads <= Len(parsed_data)
    /\ errors = Cardinality({k \in 1..C15_Reads : C15_Differs(k)})
    /\ errors = MAX_REPORTED_ERRORS =>
          /\ pc \in {"verify_end", "done"}
          /\ C15_Differs(C15_Reads)

\* A verification cut short: 20 errors, and items of the image left unread.
C15_Witness ==
    /\ pc = "done"
    /\ errors = MAX_REPORTED_ERRORS
    /\ C15_Reads < Len(parsed_data)
    /\ result = "False"


(***************************************************************************)
(* transfer_byte.                                                          *)
(***************************************************************************)
\* The samples read so far, as one number, first sample most significant.
RECURSIVE C16_MsbFirst(_)
C16_MsbFirst(levels) ==
    IF Len(levels) = 0 THEN 0
    ELSE 2 * C16_MsbFirst(SubSeq(levels, 1, Len(levels) - 1)) + levels[Len(levels)]

\* C16: transfer_byte(out) makes exactly 8 clock pulses.  Whenever the clock
\* is high, in pulse k (from 0), data-out holds bit 7-k of out (it was set
\* before the edge); data-in is sampled only while the clock is high and
\* once per pulse; after its sample the clock is lowered.  When the call
\* has returned there were 8 rising edges and 8 samples, the clock is low,
\* and the value returned is the 8 samples, first sample most significant,
\* a number in 0..255.
C16_TransferByte ==
    /\ []( /\ sck_rises <= BITS_PER_BYTE
           /\ sck = 1 => /\ sck_rises >= 1
                         /\ mosi = (tb_byte \div Pow2(BITS_PER_BYTE - sck_rises)) % 2
                         /\ Len(miso_reads) \in {sck_rises - 1, sck_rises}
           /\ sck = 0 => Len(miso_reads) = sck_rises
           /\ tb_pc = "returned" =>
                 /\ sck_rises = BITS_PER_BYTE
                 /\ Len(miso_reads) = BITS_PER_BYTE
                 /\ sck = 0
                 /\ tb_ret = C16_MsbFirst(miso_reads)
                 /\ tb_ret \in 0..255 )
    /\ [][ /\ miso_reads' # miso_reads =>
                 \/ /\ sck = 1 /\ sck' = 1
                    /\ Len(miso_reads') = Len(miso_reads) + 1
                    /\ SubSeq(miso_reads', 1, Len(miso_reads)) = miso_reads
                 \/ /\ tb_pc \in {"idle", "returned"} /\ tb_pc' = "set_mosi"
                    /\ miso_reads' = <<>>
           /\ (sck = 1 /\ sck' = 0) => Len(miso_reads) = sck_rises ]_vars

\* The call returned 0x53 while 0xAC was sent.
C16_Witness ==
    /\ tb_pc = "returned"
    /\ tb_byte = 172
    /\ miso_reads = <<0, 1, 0, 1, 0, 0, 1, 1>>
    /\ tb_ret = 83
    /\ sck = 0


(***************************************************************************)
(* The range of the image.                                                 *)
(***************************************************************************)
\* C17: every key of the dict parse_hex_file returned is a 16-bit address
\* (0..65535) and every value an 8-bit byte (0..255).
C17_ImageIs16BitTo8Bit ==
    \A i \in 1..Len(parsed_data) :
        /\ parsed_data[i][1] \in 0..65535
        /\ parsed_data[i][2] \in 0..255


(***************************************************************************)
(* Fuse writes.                                                            *)
(***************************************************************************)
\* The high-fuse write command 0xAC 0xA8 (line 131).
IsHighFuseWrite(c) == c[1] = 172 /\ c[2] = 168

\* C18: no state of a run of program_flash has a high-fuse write command
\* (0xAC 0xA8 0x00 v) in its log, whatever the image, the configured fuse
\* values and the target's answers; every fuse write in the log is the
\* low-fuse write carrying the configured low-fuse value, and the one call
\* of the guard sends at most one.
C18_NoHighFuseWrite ==
    /\ IndicesOf(log, IsHighFuseWrite) = {}
    /\ \A i \in IndicesOf(log, IsFuseWrite) :
          /\ log[i] = <<172, 160, 0, ATTINY13_LOW_FUSE_9_6MHZ>>
          /\ i > guard_log_start
    /\ Cardinality(IndicesOf(log, IsFuseWrite)) <= 1

\* A run that wrote the low fuse (configured 0x6A) while the target's high
\* fuse differed from the configured one, and went on to the end.
C18_Witness ==
    /\ pc = "done"
    /\ ATTINY13_LOW_FUSE_9_6MHZ = 106
    /\ IndicesOf(log, IsFuseWrite) # {}
    /\ IndicesOf(log, IsChipErase) # {}


(***************************************************************************)
(* What verify_flash reads back.                                           *)
(***************************************************************************)
\* The page commit of the page that holds byte address a.
C19_CommitOfPageOf(a) ==
    LET p == a - (a % ATTINY13_PAGE_SIZE)
    IN  <<76, ((p \div 2) \div 256) % 256, (p \div 2) % 256, 0>>

\* C19: every address verify_flash reads back lies in a page committed
\* earlier in the run: once verification begins, the page starting at
\* a - (a mod 32) has been committed for every address a of the image, and
\* every flash read in the log is preceded by the commit of its page.
C19_VerifiedAddressesWereCommitted ==
    /\ pc \in {"verify", "verify_end"} =>
          \A a \in DictKeys(parsed_data) :
              \E i \in 1..Len(log) : log[i] = C19_CommitOfPageOf(a)
    /\ \A r \in IndicesOf(log, IsFlashRead) :
          \E i \in 1..(r - 1) : log[i] = C19_CommitOfPageOf(ReadFlashAddress(log[r]))


(***************************************************************************)
(* program_flash against a faultless target.                               *)
(***************************************************************************)
\* The image is not empty and lies within the flash.
C20_ImageInFlash ==
    /\ parsed_data # <<>>
    /\ \A a \in DictKeys(parsed_data) : a \in 0..(FLASH_SIZE - 1)

\* C20: on a faultless target, a run of program_flash on a non-empty image
\* within [0, FLASH_SIZE) never returns False, and when it has returned,
\* it has returned True, every address of the image holds the image's byte
\* in the target's flash, and every other byte of each page that holds an
\* image address has been written and reads 0xFF.
C20_IdealTargetProgrammed ==
    C20_ImageInFlash =>
        /\ result \in {"none", "True"}
        /\ pc = "done" =>
              /\ result = "True"
              /\ reset = 1
              /\ \A a \in DictKeys(parsed_data) :
                    a \in DOMAIN flash_mem /\ flash_mem[a] = DictGet(parsed_data, a)
              /\ \A p \in PageStarts :
                    C10_ImageInPage(p) =>
                        \A a \in p..(p + ATTINY13_PAGE_SIZE - 1) :
                            ~DictHas(parsed_data, a) =>
                                (a \in DOMAIN flash_mem /\ flash_mem[a] = 255)

\* The shipped image programmed over an earlier program: 72 bytes in three
\* pages, the rest of the third page 0xFF.
C20_Witness ==
    /\ pc = "done"
    /\ result = "True"
    /\ hex_content = hex_file_content
    /\ Len(parsed_data) = 72
    /\ FlashByte(flash_mem, 72) = 255
    /\ DOMAIN flash_mem = 0..95
    /\ \E i \in 1..Len(log) : log[i] = <<172, 160, 0, 122>>

=============================================================================
